---- MODULE Spec2Model ----
(***************************************************************************)
(* Account health state machine and publish orchestration of the Reddit    *)
(* content platform (backend/app).                                         *)
(*                                                                         *)
(* Time is in seconds (datetime.utcnow()).  health_score is kept in tenths *)
(* (10 = 1.0), removal_rate as the pair <<removed, made>> it was computed  *)
(* from, and selection scores are scaled by ScoreScale so that the Python  *)
(* float arithmetic becomes exact integer arithmetic.                      *)
(*                                                                         *)
(* Every request or task works on its own SQLAlchemy session: a row is     *)
(* loaded once, attributes are changed on the loaded object, and commit    *)
(* writes the assigned attributes.  Handlers that make no slow call        *)
(* between load and commit are one step; publish_content is two steps      *)
(* (load and select, then external call and commit).                       *)
(***************************************************************************)
EXTENDS Integers, Sequences, FiniteSets, TLC

----------------------------------------------------------------------------
(* Bounds of the model *)

MaxRequests == 3

Users == {1, 2}
Contents == {1, 2}
Workers == {1, 2}
Projects == {1}
Subreddits == {"python"}
KarmaValues == {50, 5000}
TickSteps == {60, 900, 86400}

----------------------------------------------------------------------------
(* Program constants *)

REDDIT_MIN_ACTION_INTERVAL_SECONDS == 60
MAX_DAILY_POSTS_PER_ACCOUNT == 10
CooldownSeconds == 900
CheckCutoffSeconds == 3600
DaySeconds == 86400
ScoreScale == 30000
NoTime == -1

ACTIVE == "active"
RATE_LIMITED == "rate_limited"
SUSPENDED == "suspended"
OAUTH_EXPIRED == "oauth_expired"
INACTIVE == "inactive"
AccountStatus == {ACTIVE, RATE_LIMITED, SUSPENDED, OAUTH_EXPIRED, INACTIVE}

Min(a, b) == IF a < b THEN a ELSE b
Max(a, b) == IF a > b THEN a ELSE b

VARIABLES
    now,            \* datetime.utcnow()
    requests,       \* number of requests, tasks and clock advances so far
    accounts,       \* reddit_accounts table: id -> row
    contents,       \* generated_contents table: id -> row
    opportunities,  \* opportunities table: id -> row
    pc,             \* per worker: position inside publish_content
    sess,           \* per worker: the rows its session has loaded
    health_queue,   \* account ids queued for check_account_health_task
    replies,        \* per content: comments the platform has accepted for it
    posts_today,    \* per account: accepted comments since its last daily reset
    features        \* learning_features table: key -> row

vars == <<now, requests, accounts, contents, opportunities, pc, sess,
          health_queue, replies, posts_today, features>>

----------------------------------------------------------------------------
(* RedditAccount *)

\* removal_rate r = <<n, d>> stands for n / d
RateLess(r, n, d) == r[1] * d < n * r[2]
RateGreater(r, n, d) == r[1] * d > n * r[2]
RateEquals(r, n, d) == r[1] * d = n * r[2]

\* subreddit_activity maps a community to its entry; present = FALSE stands for
\* a community that is no key of the dict
NoActivity == [present |-> FALSE, posts |-> 0, karma |-> 0, last_activity |-> NoTime]

\* Column defaults of a row created by oauth_callback
NewAccount(project, karma, age) ==
    [project_id |-> project,
     status |-> ACTIVE,
     health_score |-> 10,
     consecutive_failures |-> 0,
     daily_actions_count |-> 0,
     daily_actions_reset_at |-> NoTime,
     last_action_at |-> NoTime,
     last_health_check_at |-> NoTime,
     total_posts_made |-> 0,
     total_posts_removed |-> 0,
     removal_rate |-> <<0, 1>>,
     karma_comment |-> karma,
     account_age_days |-> age,
     refresh_token |-> TRUE,
     subreddit_activity |-> [s \in Subreddits |-> NoActivity]]

is_active(acc) == acc.status = ACTIVE

\* can_post letting an account at the daily cap post once more
can_post_at_cap(acc, t) ==
    /\ is_active(acc)
    /\ ~(acc.daily_actions_count > MAX_DAILY_POSTS_PER_ACCOUNT)
    /\ ~(/\ acc.last_action_at # NoTime
         /\ t - acc.last_action_at < REDDIT_MIN_ACTION_INTERVAL_SECONDS)

can_post(acc, t) ==
    /\ is_active(acc)
    /\ ~(acc.daily_actions_count >= MAX_DAILY_POSTS_PER_ACCOUNT)
    /\ ~(/\ acc.last_action_at # NoTime
         /\ t - acc.last_action_at < REDDIT_MIN_ACTION_INTERVAL_SECONDS)

\* selection_score * ScoreScale
selection_score(acc) ==
    LET karma == Min(3 * acc.karma_comment, 20 * 3000)
        age == IF acc.account_age_days # 0
               THEN Min(100 * acc.account_age_days, 10 * 3000) ELSE 0
        removal == IF RateLess(acc.removal_rate, 5, 100) THEN 10 * 3000
                   ELSE IF RateGreater(acc.removal_rate, 20, 100) THEN 0 - 20 * 3000
                   ELSE 0
        healthy == (100 * 3000 + karma + age + removal) * acc.health_score
        remaining == MAX_DAILY_POSTS_PER_ACCOUNT - acc.daily_actions_count
        score == IF remaining <= 2 THEN healthy - 10 * ScoreScale ELSE healthy
    IN  Max(0, score)

----------------------------------------------------------------------------
(* RedditPublisher._select_best_account *)

HasActivity(acc, subreddit) == acc.subreddit_activity[subreddit].present

account_score(acc, subreddit) ==
    selection_score(acc)
    + (IF HasActivity(acc, subreddit)
       THEN 15 * ScoreScale
            + (IF acc.subreddit_activity[subreddit].karma > 0
               THEN 10 * ScoreScale ELSE 0)
       ELSE 0)

\* The orders in which a query without ORDER BY may return the rows
QueryOrders(ids) ==
    {o \in [1..Cardinality(ids) -> ids] : \A i, j \in DOMAIN o : i # j => o[i] # o[j]}

Available(rows, project_id, t) ==
    {a \in DOMAIN rows : /\ rows[a].project_id = project_id
                         /\ rows[a].status = ACTIVE
                         /\ can_post(rows[a], t)}

\* _select_best_account with a sort that puts the last of equal accounts first
select_best_account_last_tie(rows, order, project_id, subreddit, t) ==
    LET available == SelectSeq(order, LAMBDA a : a \in Available(rows, project_id, t))
        IsBest(i) == \A j \in DOMAIN available :
                        /\ account_score(rows[available[j]], subreddit)
                             <= account_score(rows[available[i]], subreddit)
                        /\ (j > i => account_score(rows[available[j]], subreddit)
                                       < account_score(rows[available[i]], subreddit))
    IN  IF available = <<>> THEN 0
        ELSE available[CHOOSE i \in DOMAIN available : IsBest(i)]

\* 0 stands for None
select_best_account(rows, order, project_id, subreddit, t) ==
    LET available == SelectSeq(order, LAMBDA a : a \in Available(rows, project_id, t))
        IsBest(i) == \A j \in DOMAIN available :
                        /\ account_score(rows[available[j]], subreddit)
                             <= account_score(rows[available[i]], subreddit)
                        /\ (j < i => account_score(rows[available[j]], subreddit)
                                       < account_score(rows[available[i]], subreddit))
    IN  IF available = <<>> THEN 0
        ELSE available[CHOOSE i \in DOMAIN available : IsBest(i)]

----------------------------------------------------------------------------
(* Initial state *)

\* An account that has posted nine times since the midnight reset, the last
\* time one interval ago, and then had one of the nine comments removed
BusyAccount(project, t) ==
    [NewAccount(project, 5000, 400) EXCEPT
        !.daily_actions_count = 9,
        !.daily_actions_reset_at = DaySeconds,
        !.last_action_at = t - REDDIT_MIN_ACTION_INTERVAL_SECONDS,
        !.total_posts_made = 9,
        !.total_posts_removed = 1,
        !.removal_rate = <<1, 9>>,
        !.subreddit_activity = [s \in Subreddits |->
            IF s = "python"
            THEN [present |-> TRUE, posts |-> 9, karma |-> 0,
                  last_activity |-> t - REDDIT_MIN_ACTION_INTERVAL_SECONDS]
            ELSE NoActivity]]

UserAgeDays(u) == IF u = 1 THEN 400 ELSE 10

StartTime == DaySeconds + CheckCutoffSeconds

NoSession == [content |-> 0, opportunity |-> 0, account_id |-> 0,
              account |-> NewAccount(0, 0, 0)]

\* comment ids are pairs <<content, n>>; NoComment stands for None
NoComment == <<0, 0>>

ContentSubreddit(c) == "python"

\* The keys (feature_type, feature_key, project_id) of learning features
FeatureKeys == {<<"subreddit", "python", 1>>}

\* success_rate n / d is the pair <<n, d>>; NoRate stands for None
NoRate == <<0, 0>>

\* Column defaults of a LearningFeature; present = FALSE stands for no row
NewFeature ==
    [present |-> TRUE, sample_count |-> 0, success_count |-> 0,
     failure_count |-> 0, success_rate |-> NoRate]

NoFeatures == [k \in FeatureKeys |-> [NewFeature EXCEPT !.present = FALSE]]

Init ==
    /\ now = StartTime
    /\ requests = 0
    /\ \E ids \in {{1}, {1, 2}} :
          accounts = [a \in ids |-> IF a = 1 THEN BusyAccount(1, StartTime)
                                    ELSE NewAccount(1, 50, UserAgeDays(a))]
    /\ contents = [c \in Contents |->
          [project_id |-> 1, opportunity_id |-> c, status |-> "approved",
           reddit_account_id |-> 0, published_reddit_id |-> NoComment,
           published_url |-> NoComment, published_at |-> NoTime]]
    /\ opportunities = [o \in Contents |->
          [subreddit |-> ContentSubreddit(o), status |-> "ready",
           processed_at |-> NoTime]]
    /\ pc = [w \in Workers |-> "idle"]
    /\ sess = [w \in Workers |-> NoSession]
    /\ health_queue = {}
    /\ replies = [c \in Contents |-> 0]
    /\ features = NoFeatures
    /\ posts_today = [u \in Users |->
          IF u \in DOMAIN accounts THEN accounts[u].daily_actions_count ELSE 0]

\* One more request, task or clock advance is started
StartRequest ==
    /\ requests < MaxRequests
    /\ requests' = requests + 1

Tick(d) ==
    /\ StartRequest
    /\ now' = now + d
    /\ UNCHANGED <<accounts, contents, opportunities, pc, sess,
                   health_queue, replies, posts_today,
                   features>>

----------------------------------------------------------------------------
(* POST /content/{id}/publish and RedditPublisher.publish_content *)

\* Requests are served by the first idle worker
FirstIdle(w) == pc[w] = "idle" /\ \A v \in Workers : pc[v] = "idle" => v >= w

\* publish_content resolving a named account without asking whether it can post
resolve_account_unchecked(rows, account_id, order, project_id, subreddit, t) ==
    IF account_id # 0
    THEN IF account_id \in DOMAIN rows THEN account_id ELSE 0
    ELSE select_best_account(rows, order, project_id, subreddit, t)

\* Lines 70-86: the account publish_content goes on with, 0 when it returns
\* its "not available" result
resolve_account(rows, account_id, order, project_id, subreddit, t) ==
    IF account_id # 0
    THEN IF account_id \in DOMAIN rows /\ can_post(rows[account_id], t)
         THEN account_id ELSE 0
    ELSE select_best_account(rows, order, project_id, subreddit, t)

\* The checks of the endpoint before it calls the publisher
PublishAccepted(c) ==
    /\ contents[c].status = "approved"
    /\ contents[c].opportunity_id # 0
    /\ contents[c].opportunity_id \in DOMAIN opportunities

\* The account resolved for a publish request of content c
ResolvedFor(c, account_id, order) ==
    resolve_account(accounts, account_id, order, contents[c].project_id,
                    opportunities[contents[c].opportunity_id].subreddit, now)

\* The request ends with the failed result: nothing is written, no call made
PublishNoAccount(w, c, account_id, order) ==
    /\ FirstIdle(w)
    /\ StartRequest
    /\ PublishAccepted(c)
    /\ ResolvedFor(c, account_id, order) = 0
    /\ UNCHANGED <<now, accounts, contents, opportunities, pc, sess, health_queue,
                   replies, posts_today, features>>

\* The endpoint's checks, then the account is resolved: account_id = 0 stands
\* for no account_id in the request.  The session keeps the rows as loaded.
PublishBegin(w, c, account_id, order) ==
    /\ FirstIdle(w)
    /\ StartRequest
    /\ PublishAccepted(c)
    /\ LET o == contents[c].opportunity_id
           account == ResolvedFor(c, account_id, order)
       IN  /\ account # 0
           /\ sess' = [sess EXCEPT ![w] = [content |-> c, opportunity |-> o,
                                           account_id |-> account,
                                           account |-> accounts[account]]]
    /\ pc' = [pc EXCEPT ![w] = "calling"]
    /\ UNCHANGED <<now, accounts, contents, opportunities, health_queue,
                   replies, posts_today,
                   features>>

\* Lines 112-122: the activity entry of the community after one more post
RecordActivity(activity, subreddit, t) ==
    [activity EXCEPT ![subreddit] =
        [present |-> TRUE,
         posts |-> (IF @.present THEN @.posts ELSE 0) + 1,
         karma |-> IF @.present THEN @.karma ELSE 0,
         last_activity |-> t]]

\* submission.reply(text) returned a comment: lines 99-137
PublishSucceed(w) ==
    /\ pc[w] = "calling"
    /\ LET c == sess[w].content
           o == sess[w].opportunity
           a == sess[w].account_id
           loaded == sess[w].account
           comment == <<c, replies[c] + 1>>
       IN  /\ replies' = [replies EXCEPT ![c] = @ + 1]
           /\ posts_today' = [posts_today EXCEPT ![a] = @ + 1]
           /\ contents' = [contents EXCEPT
                  ![c].reddit_account_id = a,
                  ![c].published_reddit_id = comment,
                  ![c].published_url = comment,
                  ![c].published_at = now,
                  ![c].status = "published"]
           /\ accounts' = [accounts EXCEPT
                  ![a].last_action_at = now,
                  ![a].daily_actions_count = loaded.daily_actions_count + 1,
                  ![a].total_posts_made = loaded.total_posts_made + 1,
                  ![a].consecutive_failures = 0,
                  ![a].subreddit_activity =
                      RecordActivity(loaded.subreddit_activity,
                                     opportunities[o].subreddit, now)]
           /\ opportunities' = [opportunities EXCEPT
                  ![o].status = "published",
                  ![o].processed_at = now]
    /\ pc' = [pc EXCEPT ![w] = "idle"]
    /\ sess' = [sess EXCEPT ![w] = NoSession]
    /\ UNCHANGED <<now, requests, health_queue, features>>

\* str(error).upper() is modelled by the set of markers it contains
Markers == {"RATELIMIT", "SUSPENDED", "BANNED", "TOKEN", "AUTH"}
ErrorTexts == {{}, {"RATELIMIT"}, {"SUSPENDED"}, {"BANNED"}, {"TOKEN"}, {"AUTH"},
               {"RATELIMIT", "AUTH"}, {"BANNED", "TOKEN"}}

\* _handle_reddit_error looking for the auth markers before the ban markers
handle_reddit_error_auth_first(row, loaded, text) ==
    LET marked ==
            IF "RATELIMIT" \in text
            THEN [row EXCEPT !.status = RATE_LIMITED, !.health_score = 5]
            ELSE IF "TOKEN" \in text \/ "AUTH" \in text
            THEN [row EXCEPT !.status = OAUTH_EXPIRED, !.health_score = 3]
            ELSE IF "SUSPENDED" \in text \/ "BANNED" \in text
            THEN [row EXCEPT !.status = SUSPENDED, !.health_score = 0]
            ELSE row
    IN  [marked EXCEPT !.consecutive_failures = loaded.consecutive_failures + 1]

\* _handle_reddit_error, lines 238-253: the account row after an API error
handle_reddit_error(row, loaded, text) ==
    LET marked ==
            IF "RATELIMIT" \in text
            THEN [row EXCEPT !.status = RATE_LIMITED, !.health_score = 5]
            ELSE IF "SUSPENDED" \in text \/ "BANNED" \in text
            THEN [row EXCEPT !.status = SUSPENDED, !.health_score = 0]
            ELSE IF "TOKEN" \in text \/ "AUTH" \in text
            THEN [row EXCEPT !.status = OAUTH_EXPIRED, !.health_score = 3]
            ELSE row
    IN  [marked EXCEPT !.consecutive_failures = loaded.consecutive_failures + 1]

\* except RedditAPIException: lines 139-140 and _handle_reddit_error
PublishApiError(w, text) ==
    /\ pc[w] = "calling"
    /\ LET c == sess[w].content
           a == sess[w].account_id
       IN  /\ accounts' = [accounts EXCEPT
                  ![a] = handle_reddit_error(@, sess[w].account, text)]
           /\ contents' = [contents EXCEPT ![c].status = "failed"]
    /\ pc' = [pc EXCEPT ![w] = "idle"]
    /\ sess' = [sess EXCEPT ![w] = NoSession]
    /\ UNCHANGED <<now, requests, opportunities, health_queue, replies,
                   posts_today,
                   features>>

\* Lines 145-148: the account row after any other exception
handle_exception(row, loaded) ==
    LET failures == loaded.consecutive_failures + 1
    IN  IF failures >= 3
        THEN [row EXCEPT !.consecutive_failures = failures,
                         !.health_score = Max(0, loaded.health_score - 2)]
        ELSE [row EXCEPT !.consecutive_failures = failures]

\* except Exception: lines 142-155
PublishException(w) ==
    /\ pc[w] = "calling"
    /\ LET a == sess[w].account_id
       IN  accounts' = [accounts EXCEPT ![a] = handle_exception(@, sess[w].account)]
    /\ pc' = [pc EXCEPT ![w] = "idle"]
    /\ sess' = [sess EXCEPT ![w] = NoSession]
    /\ UNCHANGED <<now, requests, contents, opportunities, health_queue, replies,
                   posts_today,
                   features>>

----------------------------------------------------------------------------
(* RedditPublisher.check_account_health and its callers *)

\* reddit.user.me(): it raises (ok = FALSE) or returns the user's karma
ProbeOutcomes ==
    {[ok |-> FALSE, comment_karma |-> 0]}
    \cup {[ok |-> TRUE, comment_karma |-> k] : k \in KarmaValues}

\* Lines 334-347, on the row with the karma just fetched
HasIssues(acc) ==
    \/ acc.karma_comment < 100
    \/ (acc.account_age_days # 0 /\ acc.account_age_days < 30)
    \/ RateGreater(acc.removal_rate, 20, 100)

\* Lines 349-351
DailyResetDue(acc, t) ==
    /\ acc.daily_actions_reset_at # NoTime
    /\ t - acc.daily_actions_reset_at > DaySeconds

\* The row that check_account_health commits
check_account_health(acc, probe, t) ==
    IF probe.ok
    THEN LET fetched == [acc EXCEPT !.karma_comment = probe.comment_karma]
         IN  [fetched EXCEPT
                 !.daily_actions_count = IF DailyResetDue(acc, t) THEN 0 ELSE @,
                 !.daily_actions_reset_at = IF DailyResetDue(acc, t) THEN t ELSE @,
                 !.status = ACTIVE,
                 !.health_score = IF HasIssues(fetched) THEN 7 ELSE 10,
                 !.last_health_check_at = t]
    ELSE [acc EXCEPT !.status = OAUTH_EXPIRED, !.health_score = 3]

\* result["status"]
health_status(acc, probe) ==
    IF ~probe.ok THEN "error"
    ELSE IF HasIssues([acc EXCEPT !.karma_comment = probe.comment_karma])
    THEN "warning" ELSE "healthy"

\* The accepted-comment count of an account follows the resets of its counter
AfterCheck(a, probe) ==
    IF probe.ok /\ DailyResetDue(accounts[a], now) THEN 0 ELSE posts_today[a]

\* POST /accounts/{id}/health-check
HealthCheckRequest(a, probe) ==
    /\ StartRequest
    /\ a \in DOMAIN accounts
    /\ accounts' = [accounts EXCEPT ![a] = check_account_health(@, probe, now)]
    /\ posts_today' = [posts_today EXCEPT ![a] = AfterCheck(a, probe)]
    /\ UNCHANGED <<now, contents, opportunities, pc, sess, health_queue,
                   replies,
                   features>>

\* POST /accounts/{id}/activate: 400 for a suspended account, else the health
\* check, whose commit stands also when the request then answers 400
ActivateAccount(a, probe) ==
    /\ StartRequest
    /\ a \in DOMAIN accounts
    /\ accounts[a].status # SUSPENDED
    /\ accounts' = [accounts EXCEPT ![a] = check_account_health(@, probe, now)]
    /\ posts_today' = [posts_today EXCEPT ![a] = AfterCheck(a, probe)]
    /\ UNCHANGED <<now, contents, opportunities, pc, sess, health_queue,
                   replies,
                   features>>

\* The answer of the activate request
activate_response(acc, probe) ==
    IF acc.status = SUSPENDED \/ health_status(acc, probe) = "error"
    THEN 400 ELSE 200

\* check_all_accounts_health_task queues one check per selected account
CheckAllAccountsHealth ==
    /\ StartRequest
    /\ health_queue' = health_queue \cup
          {a \in DOMAIN accounts :
              /\ accounts[a].status \in {ACTIVE, RATE_LIMITED, OAUTH_EXPIRED}
              /\ \/ accounts[a].last_health_check_at = NoTime
                 \/ accounts[a].last_health_check_at < now - CheckCutoffSeconds}
    /\ UNCHANGED <<now, accounts, contents, opportunities, pc, sess,
                   replies, posts_today,
                   features>>

\* check_account_health_task(account_id), taken from the queue
CheckAccountHealthTask(a, probe) ==
    /\ StartRequest
    /\ a \in health_queue
    /\ health_queue' = health_queue \ {a}
    /\ a \in DOMAIN accounts
    /\ accounts' = [accounts EXCEPT ![a] = check_account_health(@, probe, now)]
    /\ posts_today' = [posts_today EXCEPT ![a] = AfterCheck(a, probe)]
    /\ UNCHANGED <<now, contents, opportunities, pc, sess, replies, features>>

\* Lines 226-231: the rows recover_rate_limited_accounts_task selects
CooledDown(rows, t) ==
    {a \in DOMAIN rows : /\ rows[a].status = RATE_LIMITED
                         /\ rows[a].last_action_at # NoTime
                         /\ rows[a].last_action_at < t - CooldownSeconds}

\* recover_rate_limited_accounts_task; probes gives the probe of each account
RecoverRateLimitedAccounts(probes) ==
    /\ StartRequest
    /\ accounts' = [a \in DOMAIN accounts |->
          IF a \in CooledDown(accounts, now)
          THEN LET checked == check_account_health(accounts[a], probes[a], now)
               IN  IF health_status(accounts[a], probes[a]) # "error"
                   THEN [checked EXCEPT !.status = ACTIVE] ELSE checked
          ELSE accounts[a]]
    /\ posts_today' = [a \in Users |->
          IF a \in CooledDown(accounts, now) THEN AfterCheck(a, probes[a])
          ELSE posts_today[a]]
    /\ UNCHANGED <<now, contents, opportunities, pc, sess, health_queue,
                   replies,
                   features>>

----------------------------------------------------------------------------
(* Token refresh, re-authorization, deactivation *)

\* The row that refresh_account_token commits (lines 280-305)
refresh_account_token(acc, probe, t) ==
    IF probe.ok
    THEN [acc EXCEPT !.karma_comment = probe.comment_karma,
                     !.status = ACTIVE,
                     !.health_score = 10,
                     !.last_health_check_at = t]
    ELSE [acc EXCEPT !.status = OAUTH_EXPIRED, !.health_score = 3]

\* POST /auth/refresh/{id} and refresh_account_token_task
RefreshAccountToken(a, probe) ==
    /\ StartRequest
    /\ a \in DOMAIN accounts
    /\ accounts[a].refresh_token
    /\ accounts' = [accounts EXCEPT ![a] = refresh_account_token(@, probe, now)]
    /\ UNCHANGED <<now, contents, opportunities, pc, sess, health_queue,
                   replies, posts_today,
                   features>>

\* GET /auth/callback after a successful authorization of user u; project_id = 0
\* stands for a state token without project
OauthCallback(u, project_id, karma) ==
    /\ StartRequest
    /\ accounts' =
          IF u \in DOMAIN accounts
          THEN [accounts EXCEPT
                   ![u].refresh_token = TRUE,
                   ![u].karma_comment = karma,
                   ![u].status = ACTIVE,
                   ![u].health_score = 10,
                   ![u].project_id = IF project_id # 0 THEN project_id ELSE @]
          ELSE [a \in DOMAIN accounts \cup {u} |->
                   IF a = u THEN NewAccount(project_id, karma, UserAgeDays(u))
                   ELSE accounts[a]]
    /\ UNCHANGED <<now, contents, opportunities, pc, sess, health_queue,
                   replies, posts_today,
                   features>>

\* DELETE /accounts/{id}
DeleteAccount(a) ==
    /\ StartRequest
    /\ a \in DOMAIN accounts
    /\ accounts' = [accounts EXCEPT ![a].status = INACTIVE]
    /\ UNCHANGED <<now, contents, opportunities, pc, sess, health_queue,
                   replies, posts_today,
                   features>>

\* POST /accounts/{id}/deactivate
DeactivateAccount(a) ==
    /\ StartRequest
    /\ a \in DOMAIN accounts
    /\ accounts' = [accounts EXCEPT ![a].status = INACTIVE]
    /\ UNCHANGED <<now, contents, opportunities, pc, sess, health_queue,
                   replies, posts_today,
                   features>>

----------------------------------------------------------------------------
(* RedditAnalyticsService *)

\* _handle_removal, lines 154-159: the account row after a removal
handle_removal(acc) ==
    LET removed == acc.total_posts_removed + 1
    IN  [acc EXCEPT
            !.total_posts_removed = removed,
            !.removal_rate = IF acc.total_posts_made > 0
                             THEN <<removed, acc.total_posts_made>> ELSE @]

\* fetch_content_metrics(db, content) finding the comment removed or deleted
FetchRemovedContent(c) ==
    /\ StartRequest
    /\ contents[c].published_reddit_id # NoComment
    /\ contents' = [contents EXCEPT ![c].status = "deleted"]
    /\ LET a == contents[c].reddit_account_id
       IN  IF a # 0 /\ a \in DOMAIN accounts
           THEN accounts' = [accounts EXCEPT ![a] = handle_removal(@)]
           ELSE UNCHANGED accounts
    /\ UNCHANGED <<now, opportunities, pc, sess, health_queue, replies,
                   posts_today,
                   features>>

----------------------------------------------------------------------------

Next ==
    \/ \E d \in TickSteps : Tick(d)
    \/ \E w \in Workers, c \in Contents, a \in {0} \cup Users,
          order \in QueryOrders(DOMAIN accounts) : PublishBegin(w, c, a, order)
    \/ \E w \in Workers : PublishSucceed(w)
    \/ \E w \in Workers, text \in ErrorTexts : PublishApiError(w, text)
    \/ \E w \in Workers : PublishException(w)
    \/ \E a \in Users, probe \in ProbeOutcomes : HealthCheckRequest(a, probe)
    \/ \E a \in Users, probe \in ProbeOutcomes : ActivateAccount(a, probe)
    \/ CheckAllAccountsHealth
    \/ \E a \in Users, probe \in ProbeOutcomes : CheckAccountHealthTask(a, probe)
    \/ \E probes \in [Users -> ProbeOutcomes] : RecoverRateLimitedAccounts(probes)
    \/ \E a \in Users, probe \in ProbeOutcomes : RefreshAccountToken(a, probe)
    \/ \E u \in Users, p \in {0} \cup Projects, k \in KarmaValues :
          OauthCallback(u, p, k)
    \/ \E a \in Users : DeleteAccount(a)
    \/ \E a \in Users : DeactivateAccount(a)
    \/ \E c \in Contents : FetchRemovedContent(c)

Spec == Init /\ [][Next]_vars

\* now.replace(hour=0, minute=0, second=0)
Midnight(t) == t - (t % DaySeconds)

\* Lines 185-188: the rows reset_daily_limits_task selects
ResetDue(rows, t) ==
    {a \in DOMAIN rows : \/ rows[a].daily_actions_reset_at = NoTime
                         \/ rows[a].daily_actions_reset_at < Midnight(t)}

\* reset_daily_limits_task
ResetDailyLimits ==
    /\ StartRequest
    /\ accounts' = [a \in DOMAIN accounts |->
          IF a \in ResetDue(accounts, now)
          THEN [accounts[a] EXCEPT !.daily_actions_count = 0,
                                   !.daily_actions_reset_at = now]
          ELSE accounts[a]]
    /\ posts_today' = [a \in Users |->
          IF a \in ResetDue(accounts, now) THEN 0 ELSE posts_today[a]]
    /\ UNCHANGED <<now, contents, opportunities, pc, sess, health_queue,
                   replies,
                   features>>

\* The daily counters: a quarter of an hour before midnight, account 1 reset
\* at the last midnight and account 2 never reset
DailyInit ==
    /\ now = 2 * DaySeconds - CooldownSeconds
    /\ requests = 0
    /\ accounts = [a \in Users |->
          IF a = 1 THEN BusyAccount(1, 2 * DaySeconds - CooldownSeconds)
          ELSE NewAccount(1, 5000, UserAgeDays(a))]
    /\ contents = [c \in Contents |->
          [project_id |-> 1, opportunity_id |-> c, status |-> "approved",
           reddit_account_id |-> 0, published_reddit_id |-> NoComment,
           published_url |-> NoComment, published_at |-> NoTime]]
    /\ opportunities = [o \in Contents |->
          [subreddit |-> ContentSubreddit(o), status |-> "ready",
           processed_at |-> NoTime]]
    /\ pc = [w \in Workers |-> "idle"]
    /\ sess = [w \in Workers |-> NoSession]
    /\ health_queue = {}
    /\ replies = [c \in Contents |-> 0]
    /\ features = NoFeatures
    /\ posts_today = [u \in Users |-> accounts[u].daily_actions_count]

DailyNext ==
    \/ \E d \in TickSteps : Tick(d)
    \/ \E w \in Workers, c \in Contents, a \in {0} \cup Users,
          order \in QueryOrders(DOMAIN accounts) : PublishBegin(w, c, a, order)
    \/ \E w \in Workers : PublishSucceed(w)
    \/ \E a \in Users, probe \in ProbeOutcomes : HealthCheckRequest(a, probe)
    \/ ResetDailyLimits

DailySpec == DailyInit /\ [][DailyNext]_vars

\* Two accounts of the same age, neither with history in r/python, with a
\* comment karma of 500 or 5000 each; the first has posted 8 times today in
\* other communities or not at all, the second belongs to project 1 or 2
SelectionKarma == {500, 5000}

UsedAccount(project, karma, used, t) ==
    IF used = 0 THEN NewAccount(project, karma, 400)
    ELSE [NewAccount(project, karma, 400) EXCEPT
             !.daily_actions_count = used,
             !.daily_actions_reset_at = DaySeconds,
             !.last_action_at = t - CheckCutoffSeconds,
             !.total_posts_made = used]

SelectionInit ==
    /\ now = StartTime
    /\ requests = 0
    /\ \E k1 \in SelectionKarma, k2 \in SelectionKarma, used \in {0, 8},
          project \in {1, 2} :
          accounts = [a \in Users |->
              IF a = 1 THEN UsedAccount(1, k1, used, StartTime)
              ELSE NewAccount(project, k2, 400)]
    /\ contents = [c \in Contents |->
          [project_id |-> 1, opportunity_id |-> c, status |-> "approved",
           reddit_account_id |-> 0, published_reddit_id |-> NoComment,
           published_url |-> NoComment, published_at |-> NoTime]]
    /\ opportunities = [o \in Contents |->
          [subreddit |-> ContentSubreddit(o), status |-> "ready",
           processed_at |-> NoTime]]
    /\ pc = [w \in Workers |-> "idle"]
    /\ sess = [w \in Workers |-> NoSession]
    /\ health_queue = {}
    /\ replies = [c \in Contents |-> 0]
    /\ features = NoFeatures
    /\ posts_today = [u \in Users |-> accounts[u].daily_actions_count]

SelectionNext ==
    \/ Tick(REDDIT_MIN_ACTION_INTERVAL_SECONDS)
    \/ \E w \in Workers, c \in Contents, a \in {0} \cup Users \cup {3},
          order \in QueryOrders(DOMAIN accounts) : PublishBegin(w, c, a, order)
    \/ \E w \in Workers, c \in Contents, a \in {0} \cup Users \cup {3},
          order \in QueryOrders(DOMAIN accounts) : PublishNoAccount(w, c, a, order)
    \/ \E w \in Workers : PublishSucceed(w)
    \/ \E w \in Workers, text \in {{}, {"RATELIMIT"}} : PublishApiError(w, text)

SelectionSpec == SelectionInit /\ [][SelectionNext]_vars

\* The same program serving its publish requests one after the other
SequentialNext == Next /\ pc'[2] = "idle"

SequentialSpec == Init /\ [][SequentialNext]_vars

----------------------------------------------------------------------------
(* Scoring of a submission: reddit_helpers, ViralityPredictor, OpportunityMiner *)
(* Scores are kept in hundredths (100 = 1.0), the composite score in ten     *)
(* thousandths, a velocity as the pair <<n, d>> standing for n / d.          *)

HourSeconds == 3600

\* get_post_age_hours, in seconds
get_post_age(submission, t) == t - submission.created_utc

\* (score / age_hours) * 0.7 + (num_comments / age_hours) * 0.3 * 10, with
\* age_hours at least 0.1
calculate_post_velocity(submission, t) ==
    <<360 * (7 * submission.score + 30 * submission.num_comments),
      Max(get_post_age(submission, t), 360)>>

\* velocity > threshold * halves / 2
VelocityAbove(velocity, halves, threshold) ==
    2 * velocity[1] > halves * threshold * velocity[2]

\* classify_urgency taking a velocity equal to the bound of a tier into it
classify_urgency_inclusive(velocity, age, threshold) ==
    LET AtLeast(halves) == 2 * velocity[1] >= halves * threshold * velocity[2]
    IN  IF age > 6 * HourSeconds THEN "expired"
        ELSE IF AtLeast(4) /\ age < HourSeconds THEN "urgent"
        ELSE IF AtLeast(2) /\ age < 2 * HourSeconds THEN "high"
        ELSE IF AtLeast(1) /\ age < 4 * HourSeconds THEN "medium"
        ELSE "low"

classify_urgency(velocity, age, threshold) ==
    IF age > 6 * HourSeconds THEN "expired"
    ELSE IF VelocityAbove(velocity, 4, threshold) /\ age < HourSeconds
    THEN "urgent"
    ELSE IF VelocityAbove(velocity, 2, threshold) /\ age < 2 * HourSeconds
    THEN "high"
    ELSE IF VelocityAbove(velocity, 1, threshold) /\ age < 4 * HourSeconds
    THEN "medium"
    ELSE "low"

get_velocity_threshold(subscribers) ==
    IF subscribers < 50000 THEN 5
    ELSE IF subscribers < 500000 THEN 15
    ELSE IF subscribers < 2000000 THEN 50
    ELSE 200

\* _calculate_relevance: matches counts the project's keywords found in the
\* text, negatives its negative keywords found
calculate_relevance(matches, negatives, keywords) ==
    IF keywords = 0 THEN 50
    ELSE IF matches = 0 THEN 0
    ELSE Max(0, Min(100, Min((100 * matches) \div keywords, 100) - 20 * negatives))

\* ViralityPredictor._predict_heuristic
predict(submission, subscribers, velocity_threshold, t) ==
    LET age == Max(get_post_age(submission, t), 360)
        velocity == calculate_post_velocity(submission, t)
        signal == IF VelocityAbove(velocity, 4, velocity_threshold) THEN 25
                  ELSE IF VelocityAbove(velocity, 2, velocity_threshold) THEN 15
                  ELSE IF VelocityAbove(velocity, 1, velocity_threshold) THEN 5
                  ELSE 0
        early == IF age < HourSeconds
                 THEN (IF submission.score > 10 THEN 10 ELSE 0)
                      + (IF submission.num_comments > 5 THEN 10 ELSE 0)
                 ELSE IF age < 2 * HourSeconds /\ submission.score > 50 THEN 10
                 ELSE 0
        ratio == IF submission.upvote_ratio > 90 THEN 10
                 ELSE IF submission.upvote_ratio > 80 THEN 5
                 ELSE IF submission.upvote_ratio < 60 THEN 0 - 10
                 ELSE 0
        title == (IF submission.title_length >= 40 /\ submission.title_length <= 120
                  THEN 5 ELSE 0)
                 + (IF submission.has_question THEN 5 ELSE 0)
        body == IF submission.is_self /\ submission.body_length > 100 THEN 5 ELSE 0
        engagement == IF submission.num_comments * 10000 > Max(subscribers, 1)
                      THEN 10 ELSE 0
    IN  Max(0, Min(100, 50 + signal + early + ratio + title + body + engagement))

\* _calculate_timing_score
calculate_timing_score(velocity, age, threshold) ==
    LET urgency == classify_urgency(velocity, age, threshold)
    IN  IF urgency = "urgent" THEN 100
        ELSE IF urgency = "high" THEN 85
        ELSE IF urgency = "medium" THEN 60
        ELSE IF urgency = "low" THEN 30
        ELSE 10

\* _calculate_composite_score with effort = 0.5
calculate_composite_score(relevance, virality, timing) ==
    relevance * 30 + virality * 25 + timing * 40 + 50 * 5

\* _calculate_expiry counting the window from the discovery, not from the post
calculate_expiry_from_discovery(age, urgency, t) ==
    LET window == IF urgency = "urgent" THEN 1
                  ELSE IF urgency = "high" THEN 2
                  ELSE IF urgency = "medium" THEN 4
                  ELSE IF urgency = "low" THEN 8
                  ELSE 0
    IN  t + window * HourSeconds

\* _calculate_expiry
calculate_expiry(age, urgency, t) ==
    LET window == IF urgency = "urgent" THEN 1
                  ELSE IF urgency = "high" THEN 2
                  ELSE IF urgency = "medium" THEN 4
                  ELSE IF urgency = "low" THEN 8
                  ELSE 0
    IN  t + Max(0, window * HourSeconds - age)

----------------------------------------------------------------------------
(* Opportunity rows and their lifecycle *)

\* A text post as Reddit returns it; matches and negatives count the keywords
\* and negative keywords of the mining project found in its text
Submission(id, created, score, comments, matches, negatives) ==
    [id |-> id, created_utc |-> created, score |-> score,
     num_comments |-> comments, upvote_ratio |-> 85, title_length |-> 60,
     has_question |-> FALSE, is_self |-> TRUE, body_length |-> 200,
     matches |-> matches, negatives |-> negatives]

\* _mine_subreddit, lines 155-199: the row built for a qualifying submission
new_opportunity(project_id, relevance, submission, subreddit, subscribers, velocity_threshold, t) ==
    LET age == get_post_age(submission, t)
        velocity == calculate_post_velocity(submission, t)
        virality == predict(submission, subscribers, velocity_threshold, t)
        timing == calculate_timing_score(velocity, age, velocity_threshold)
        urgency == classify_urgency(velocity, age, velocity_threshold)
    IN  [project_id |-> project_id,
         reddit_post_id |-> submission.id,
         subreddit |-> subreddit,
         post_created_at |-> submission.created_utc,
         post_score |-> submission.score,
         post_num_comments |-> submission.num_comments,
         relevance_score |-> relevance,
         virality_score |-> virality,
         timing_score |-> timing,
         composite_score |-> calculate_composite_score(relevance, virality, timing),
         urgency |-> urgency,
         velocity |-> velocity,
         velocity_threshold |-> velocity_threshold,
         status |-> "pending",
         expires_at |-> calculate_expiry(age, urgency, t),
         discovered_at |-> t,
         processed_at |-> NoTime]

\* approve_opportunity approving whatever is not yet processed further
approve_opportunity_unless_done(row, t) ==
    IF row.status \in {"pending", "approved"}
    THEN [row EXCEPT !.status = "approved", !.processed_at = t]
    ELSE row

\* approve_opportunity, lines 110-115: the row it leaves
approve_opportunity(row, t) ==
    IF row.status = "pending"
    THEN [row EXCEPT !.status = "approved", !.processed_at = t]
    ELSE row

\* The HTTP status of the approve request
approve_response(row) == IF row.status = "pending" THEN 200 ELSE 400

\* POST /opportunities/{id}/approve: 400 unless the opportunity is PENDING
ApproveOpportunity(o) ==
    /\ StartRequest
    /\ o \in DOMAIN opportunities
    /\ opportunities' = [opportunities EXCEPT ![o] = approve_opportunity(@, now)]
    /\ UNCHANGED <<now, accounts, contents, pc, sess, health_queue, replies,
                   posts_today,
                   features>>

\* POST /opportunities/{id}/reject
RejectOpportunity(o) ==
    /\ StartRequest
    /\ o \in DOMAIN opportunities
    /\ opportunities' = [opportunities EXCEPT ![o].status = "rejected",
                                              ![o].processed_at = now]
    /\ UNCHANGED <<now, accounts, contents, pc, sess, health_queue, replies,
                   posts_today,
                   features>>

\* POST /opportunities/{id}/generate-content and generate_content_task, up to
\* the first commit
GenerateBegin(w, o) ==
    /\ FirstIdle(w)
    /\ StartRequest
    /\ o \in DOMAIN opportunities
    /\ opportunities' = [opportunities EXCEPT ![o].status = "generating"]
    /\ pc' = [pc EXCEPT ![w] = "generating"]
    /\ sess' = [sess EXCEPT ![w] = [NoSession EXCEPT !.opportunity = o]]
    /\ UNCHANGED <<now, accounts, contents, health_queue, replies, posts_today, features>>

\* Content ids not yet given to a row
AbsentContents == {c \in Contents : contents[c].status = "absent"}

\* Project.automation_level
AutomationLevel(project_id) == 3

\* generate_content_task, lines 86-93: the status of the new content; the
\* endpoint never auto-approves
generated_status(passed, auto_approve, project_id) ==
    IF passed
    THEN IF auto_approve /\ AutomationLevel(project_id) >= 3
         THEN "approved" ELSE "pending"
    ELSE "draft"

\* The id the next added content row gets
NextContent == CHOOSE x \in AbsentContents : \A y \in AbsentContents : x <= y

\* The generator returned: the content is added with the status its quality
\* result gives it and the opportunity becomes READY
GenerateSucceed(w, passed, auto_approve) ==
    /\ pc[w] = "generating"
    /\ AbsentContents # {}
    /\ LET o == sess[w].opportunity
           c == NextContent
       IN  /\ contents' = [contents EXCEPT
                  ![c].project_id = opportunities[o].project_id,
                  ![c].opportunity_id = o,
                  ![c].passed_quality_gates = passed,
                  ![c].status = generated_status(passed, auto_approve,
                                                 opportunities[o].project_id)]
           /\ opportunities' = [opportunities EXCEPT ![o].status = "ready"]
    /\ pc' = [pc EXCEPT ![w] = "idle"]
    /\ sess' = [sess EXCEPT ![w] = NoSession]
    /\ UNCHANGED <<now, requests, accounts, health_queue, replies, posts_today, features>>

\* The generator or the quality gates raised
GenerateFail(w) ==
    /\ pc[w] = "generating"
    /\ opportunities' = [opportunities EXCEPT ![sess[w].opportunity].status = "pending"]
    /\ pc' = [pc EXCEPT ![w] = "idle"]
    /\ sess' = [sess EXCEPT ![w] = NoSession]
    /\ UNCHANGED <<now, requests, accounts, contents, health_queue, replies,
                   posts_today,
                   features>>

\* POST /content/{id}/approve
ApproveContent(c) ==
    /\ StartRequest
    /\ contents[c].status \in {"draft", "pending"}
    /\ contents' = [contents EXCEPT ![c].status = "approved"]
    /\ UNCHANGED <<now, accounts, opportunities, pc, sess, health_queue, replies,
                   posts_today,
                   features>>

\* POST /content/{id}/reject
RejectContent(c) ==
    /\ StartRequest
    /\ contents[c].status # "absent"
    /\ contents' = [contents EXCEPT ![c].status = "rejected"]
    /\ UNCHANGED <<now, accounts, opportunities, pc, sess, health_queue, replies,
                   posts_today,
                   features>>

\* What a PUT /content/{id} carries: no new text, or a text that passes or
\* fails the quality gates
TextEdits == {"none", "passing", "failing"}

\* PUT /content/{id}: a new text is checked again, the status stays
UpdateContent(c, edit) ==
    /\ StartRequest
    /\ contents[c].status \notin {"absent", "published"}
    /\ contents' = IF edit = "none" THEN contents
                   ELSE [contents EXCEPT ![c].passed_quality_gates = (edit = "passing")]
    /\ UNCHANGED <<now, accounts, opportunities, pc, sess, health_queue, replies,
                   posts_today,
                   features>>

\* POST /content/{id}/regenerate and regenerate_content_task: a new row for
\* the regenerated text, the old row stays as it is
RegenerateContent(c, passed) ==
    /\ StartRequest
    /\ contents[c].status \notin {"absent", "published"}
    /\ AbsentContents # {}
    /\ contents' = [contents EXCEPT
           ![NextContent].project_id = contents[c].project_id,
           ![NextContent].opportunity_id = contents[c].opportunity_id,
           ![NextContent].passed_quality_gates = passed,
           ![NextContent].status = generated_status(passed, FALSE, contents[c].project_id)]
    /\ UNCHANGED <<now, accounts, opportunities, pc, sess, health_queue, replies,
                   posts_today,
                   features>>

\* What submission._fetch() may find: score and comment count of the post
FetchedCounts == {<<4, 0>>, <<400, 40>>}

\* A refresh that leaves the composite score as it was mined
refresh_keeping_composite(row, score, comments, t) ==
    LET submission == [created_utc |-> row.post_created_at, score |-> score,
                       num_comments |-> comments]
        age == get_post_age(submission, t)
        velocity == calculate_post_velocity(submission, t)
        threshold == IF row.velocity_threshold # 0 THEN row.velocity_threshold ELSE 15
    IN  [row EXCEPT
            !.post_score = score,
            !.post_num_comments = comments,
            !.velocity = velocity,
            !.timing_score = calculate_timing_score(velocity, age, threshold),
            !.urgency = classify_urgency(velocity, age, threshold)]

\* A refresh that expires the row whatever its status
refresh_expiring_any_status(row, score, comments, t) ==
    LET submission == [created_utc |-> row.post_created_at, score |-> score,
                       num_comments |-> comments]
        age == get_post_age(submission, t)
        velocity == calculate_post_velocity(submission, t)
        threshold == IF row.velocity_threshold # 0 THEN row.velocity_threshold ELSE 15
        timing == calculate_timing_score(velocity, age, threshold)
        urgency == classify_urgency(velocity, age, threshold)
    IN  [row EXCEPT
            !.post_score = score,
            !.post_num_comments = comments,
            !.velocity = velocity,
            !.timing_score = timing,
            !.urgency = urgency,
            !.composite_score = calculate_composite_score(
                IF row.relevance_score # 0 THEN row.relevance_score ELSE 50,
                IF row.virality_score # 0 THEN row.virality_score ELSE 50,
                timing),
            !.status = IF urgency = "expired" THEN "expired" ELSE @]

\* refresh_opportunity_scores, lines 343-377: the row it commits
refresh_opportunity_scores(row, score, comments, t) ==
    LET submission == [created_utc |-> row.post_created_at, score |-> score,
                       num_comments |-> comments]
        age == get_post_age(submission, t)
        velocity == calculate_post_velocity(submission, t)
        threshold == IF row.velocity_threshold # 0 THEN row.velocity_threshold ELSE 15
        timing == calculate_timing_score(velocity, age, threshold)
        urgency == classify_urgency(velocity, age, threshold)
    IN  [row EXCEPT
            !.post_score = score,
            !.post_num_comments = comments,
            !.velocity = velocity,
            !.timing_score = timing,
            !.urgency = urgency,
            !.composite_score = calculate_composite_score(
                IF row.relevance_score # 0 THEN row.relevance_score ELSE 50,
                IF row.virality_score # 0 THEN row.virality_score ELSE 50,
                timing),
            !.status = IF urgency = "expired" /\ row.status = "pending"
                       THEN "expired" ELSE @]

\* POST /opportunities/{id}/refresh; when the fetch raises nothing is committed
RefreshOpportunity(o, fetch_ok, counts) ==
    /\ StartRequest
    /\ o \in DOMAIN opportunities
    /\ opportunities' =
          IF fetch_ok
          THEN [opportunities EXCEPT
                   ![o] = refresh_opportunity_scores(@, counts[1], counts[2], now)]
          ELSE opportunities
    /\ UNCHANGED <<now, accounts, contents, pc, sess, health_queue, replies,
                   posts_today,
                   features>>

\* The selection of expire_opportunities_task without its status filter
Expirable_any_status(rows, t) ==
    {o \in DOMAIN rows : /\ rows[o].expires_at # NoTime
                         /\ rows[o].expires_at < t}

\* Lines 150-154: the rows expire_opportunities_task selects
Expirable(rows, t) ==
    {o \in DOMAIN rows : /\ rows[o].status = "pending"
                         /\ rows[o].expires_at # NoTime
                         /\ rows[o].expires_at < t}

\* expire_opportunities_task
ExpireOpportunities ==
    /\ StartRequest
    /\ opportunities' = [o \in DOMAIN opportunities |->
          IF o \in Expirable(opportunities, now)
          THEN [opportunities[o] EXCEPT !.status = "expired"]
          ELSE opportunities[o]]
    /\ UNCHANGED <<now, accounts, contents, pc, sess, health_queue, replies,
                   posts_today,
                   features>>

\* Three opportunities of project 1 mined a quarter of an hour ago in a
\* community of 100000 subscribers: the first since brought to READY with an
\* approved content, the second past its expiry, the third not yet
MinedAt == StartTime - CooldownSeconds

LifecycleRows ==
    LET mined(id, age, score, comments) ==
            new_opportunity(1, 100,
                Submission(id, MinedAt - age, score, comments, 2, 0),
                "python", 100000, 15, MinedAt)
    IN  <<[mined("p1", 3000, 400, 40) EXCEPT !.status = "ready"],
          mined("p2", 3000, 400, 40),
          mined("p3", 1800, 4, 0)>>

LifecycleInit ==
    /\ now = StartTime
    /\ requests = 0
    /\ accounts = [a \in {1} |-> NewAccount(1, 5000, 400)]
    /\ contents = [c \in Contents |->
          [project_id |-> 1,
           opportunity_id |-> IF c = 1 THEN 1 ELSE 0,
           status |-> IF c = 1 THEN "approved" ELSE "absent",
           passed_quality_gates |-> c = 1,
           reddit_account_id |-> 0, published_reddit_id |-> NoComment,
           published_url |-> NoComment, published_at |-> NoTime]]
    /\ opportunities = LifecycleRows
    /\ pc = [w \in Workers |-> "idle"]
    /\ sess = [w \in Workers |-> NoSession]
    /\ health_queue = {}
    /\ replies = [c \in Contents |-> 0]
    /\ features = NoFeatures
    /\ posts_today = [u \in Users |-> 0]

LifecycleNext ==
    \/ \E d \in TickSteps : Tick(d)
    \/ \E o \in DOMAIN opportunities : ApproveOpportunity(o)
    \/ \E o \in DOMAIN opportunities : RejectOpportunity(o)
    \/ \E w \in Workers, o \in DOMAIN opportunities : GenerateBegin(w, o)
    \/ \E w \in Workers, passed \in BOOLEAN, auto_approve \in BOOLEAN :
          GenerateSucceed(w, passed, auto_approve)
    \/ \E w \in Workers : GenerateFail(w)
    \/ \E c \in Contents : ApproveContent(c)
    \/ \E w \in Workers, c \in Contents, a \in {0} \cup Users,
          order \in QueryOrders(DOMAIN accounts) : PublishBegin(w, c, a, order)
    \/ \E w \in Workers : PublishSucceed(w)
    \/ \E w \in Workers, text \in ErrorTexts : PublishApiError(w, text)
    \/ \E o \in DOMAIN opportunities, fetch_ok \in BOOLEAN, counts \in FetchedCounts :
          RefreshOpportunity(o, fetch_ok, counts)
    \/ ExpireOpportunities

LifecycleSpec == LifecycleInit /\ [][LifecycleNext]_vars

\* The rows of LifecycleInit before any content was generated
ContentInit ==
    /\ now = StartTime
    /\ requests = 0
    /\ accounts = [a \in {1} |-> NewAccount(1, 5000, 400)]
    /\ contents = [c \in Contents |->
          [project_id |-> 1, opportunity_id |-> 0, status |-> "absent",
           passed_quality_gates |-> FALSE,
           reddit_account_id |-> 0, published_reddit_id |-> NoComment,
           published_url |-> NoComment, published_at |-> NoTime]]
    /\ opportunities = [LifecycleRows EXCEPT ![1].status = "approved"]
    /\ pc = [w \in Workers |-> "idle"]
    /\ sess = [w \in Workers |-> NoSession]
    /\ health_queue = {}
    /\ replies = [c \in Contents |-> 0]
    /\ features = NoFeatures
    /\ posts_today = [u \in Users |-> 0]

\* Generation, review, edit and publication of contents
ContentNext ==
    \/ \E w \in Workers, o \in DOMAIN opportunities : GenerateBegin(w, o)
    \/ \E w \in Workers, passed \in BOOLEAN, auto_approve \in BOOLEAN :
          GenerateSucceed(w, passed, auto_approve)
    \/ \E w \in Workers : GenerateFail(w)
    \/ \E c \in Contents : ApproveContent(c)
    \/ \E c \in Contents : RejectContent(c)
    \/ \E c \in Contents, edit \in TextEdits : UpdateContent(c, edit)
    \/ \E c \in Contents, passed \in BOOLEAN : RegenerateContent(c, passed)
    \/ \E w \in Workers, c \in Contents, a \in {0} \cup Users,
          order \in QueryOrders(DOMAIN accounts) : PublishBegin(w, c, a, order)
    \/ \E w \in Workers : PublishSucceed(w)
    \/ \E w \in Workers, text \in ErrorTexts : PublishApiError(w, text)

ContentSpec == ContentInit /\ [][ContentNext]_vars

----------------------------------------------------------------------------
(* OpportunityMiner.mine_opportunities: one pass of a project over its       *)
(* target communities.  A pass is the steps MineBegin, one MineSubreddit per *)
(* community and MineCommit; the worker's session holds the pass in between. *)

MiningProjects == {1, 2}

\* Project 1 has two keywords, project 2 none
Keywords(project_id) == IF project_id = 1 THEN 2 ELSE 0

\* The requests a pass is started with, <<project, subreddits, limit>>: both
\* projects over r/python and the combined listing r/python+learnpython with
\* the default limit, project 1 also over r/python alone with a limit of 2
MiningRequests ==
    {<<1, <<"python", "python+learnpython">>, 100>>,
     <<2, <<"python", "python+learnpython">>, 100>>,
     <<1, <<"python">>, 2>>}

\* The posts Reddit lists: "a" is hot and half an hour old, "b" an hour old
\* with a velocity of exactly 15, "c" names two negative keywords, "d" is
\* exactly a day old
Post(id) ==
    IF id = "a" THEN Submission("a", StartTime - 1800, 400, 40, 2, 0)
    ELSE IF id = "b" THEN Submission("b", StartTime - HourSeconds, 0, 5, 1, 1)
    ELSE IF id = "c" THEN Submission("c", StartTime - 1800, 4, 0, 1, 2)
    ELSE Submission("d", StartTime - DaySeconds, 400, 40, 2, 0)

\* subreddit.rising() and subreddit.new(), the same at every fetch
Rising(subreddit) ==
    IF subreddit = "python" THEN <<Post("a"), Post("b")>>
    ELSE <<Post("a"), Post("d")>>

New(subreddit) ==
    IF subreddit = "python" THEN <<Post("b"), Post("c")>>
    ELSE <<Post("c")>>

\* Both communities count 100000 subscribers
Subscribers(subreddit) == 100000

\* SubredditConfig.velocity_threshold of the project, 0 when there is none
ConfiguredThreshold(project_id, subreddit) ==
    IF subreddit = "python" THEN 0 ELSE 5

\* Lines 123-126
velocity_threshold_for(project_id, subreddit) ==
    IF ConfiguredThreshold(project_id, subreddit) # 0
    THEN ConfiguredThreshold(project_id, subreddit)
    ELSE get_velocity_threshold(Subscribers(subreddit))

\* A listing read with limit=n
Take(listing, n) == SubSeq(listing, 1, Min(n, Len(listing)))

PostIds(posts) == {posts[i].id : i \in DOMAIN posts}

\* Lines 129-136: rising, then the new posts not among them
posts_to_check(subreddit, limit) ==
    LET rising == Take(Rising(subreddit), limit)
        isNew(s) == s.id \notin PostIds(rising)
    IN  rising \o SelectSeq(Take(New(subreddit), limit \div 2), isNew)

\* A pass that checks no post against the known ids
is_unknown_always(id, existing_ids) == TRUE

\* Line 140
is_unknown(id, existing_ids) == id \notin existing_ids

\* A pass without the relevance floor
qualifies_by_age(relevance, age) == age <= DaySeconds

\* Lines 145 and 152: neither older than 24 hours nor below relevance 0.3
qualifies(relevance, age) == age <= DaySeconds /\ relevance >= 30

\* _calculate_relevance of a submission for a project
relevance_of(submission, project_id) ==
    calculate_relevance(submission.matches, submission.negatives,
                        Keywords(project_id))

\* Lines 139-202: the rows built from the posts, each id joining existing_ids
RECURSIVE mine_posts(_, _, _, _, _)
mine_posts(project_id, subreddit, posts, existing_ids, t) ==
    IF posts = <<>> THEN <<>>
    ELSE LET submission == Head(posts)
             relevance == relevance_of(submission, project_id)
         IN  IF /\ is_unknown(submission.id, existing_ids)
                /\ qualifies(relevance, get_post_age(submission, t))
             THEN <<new_opportunity(project_id, relevance, submission, subreddit,
                        Subscribers(subreddit),
                        velocity_threshold_for(project_id, subreddit), t)>>
                  \o mine_posts(project_id, subreddit, Tail(posts),
                                existing_ids \cup {submission.id}, t)
             ELSE mine_posts(project_id, subreddit, Tail(posts), existing_ids, t)

\* fail_at posts are processed before Reddit raises; NoFailure when it never does
NoFailure == 500
FailPoints == {0, 1, NoFailure}

\* _mine_subreddit: the rows it returns; what it found before an exception
\* is returned too
mine_subreddit(project_id, subreddit, existing_ids, limit, fail_at, t) ==
    mine_posts(project_id, subreddit,
               Take(posts_to_check(subreddit, limit), fail_at), existing_ids, t)

RowIds(rows) == {rows[i].reddit_post_id : i \in DOMAIN rows}

\* _get_existing_post_ids
get_existing_post_ids(rows, project_id) ==
    {rows[i].reddit_post_id : i \in {j \in DOMAIN rows : rows[j].project_id = project_id}}

\* The session of a worker in a pass
MiningSession(project_id, targets, limit, existing_ids) ==
    [project_id |-> project_id, todo |-> targets, limit |-> limit,
     existing_ids |-> existing_ids, found |-> <<>>, failed |-> {}]

\* mine_opportunities_task and POST /opportunities/mine up to line 73
MineBegin(w, project_id, targets, limit) ==
    /\ FirstIdle(w)
    /\ StartRequest
    /\ pc' = [pc EXCEPT ![w] = "mining"]
    /\ sess' = [sess EXCEPT ![w] = MiningSession(project_id, targets, limit,
                      get_existing_post_ids(opportunities, project_id))]
    /\ UNCHANGED <<now, accounts, contents, opportunities, health_queue, replies,
                   posts_today,
                   features>>

\* Lines 78-97, one turn of the loop
MineSubreddit(w, fail_at) ==
    /\ pc[w] = "mining"
    /\ sess[w].todo # <<>>
    /\ LET s == sess[w]
           subreddit == Head(s.todo)
           limit == Min(50, s.limit - Len(s.found))
           rows == mine_subreddit(s.project_id, subreddit, s.existing_ids,
                                  limit, fail_at, now)
           found == s.found \o rows
       IN  sess' = [sess EXCEPT ![w] =
              [s EXCEPT !.found = found,
                        !.existing_ids = @ \cup RowIds(rows),
                        !.failed = IF fail_at < Len(posts_to_check(subreddit, limit))
                                   THEN @ \cup {subreddit} ELSE @,
                        !.todo = IF Len(found) >= s.limit THEN <<>> ELSE Tail(@)]]
    /\ UNCHANGED <<now, requests, accounts, contents, opportunities, pc,
                   health_queue, replies, posts_today,
                   features>>

\* INSERT of the rows: the unique index on reddit_post_id refuses the batch
\* when one of its ids is already in the table
commit_opportunities(rows, found, t) ==
    IF RowIds(found) \cap RowIds(rows) # {}
    THEN rows
    ELSE rows \o [i \in DOMAIN found |-> [found[i] EXCEPT !.discovered_at = t]]

\* Lines 99-105
MineCommit(w) ==
    /\ pc[w] = "mining"
    /\ sess[w].todo = <<>>
    /\ opportunities' = commit_opportunities(opportunities, sess[w].found, now)
    /\ pc' = [pc EXCEPT ![w] = "idle"]
    /\ sess' = [sess EXCEPT ![w] = NoSession]
    /\ UNCHANGED <<now, requests, accounts, contents, health_queue, replies,
                   posts_today,
                   features>>

MiningInit ==
    /\ now = StartTime
    /\ requests = 0
    /\ accounts = [a \in {1} |-> NewAccount(1, 5000, 400)]
    /\ contents = [c \in Contents |->
          [project_id |-> 1, opportunity_id |-> 0, status |-> "absent",
           reddit_account_id |-> 0, published_reddit_id |-> NoComment,
           published_url |-> NoComment, published_at |-> NoTime]]
    /\ opportunities = <<>>
    /\ pc = [w \in Workers |-> "idle"]
    /\ sess = [w \in Workers |-> NoSession]
    /\ health_queue = {}
    /\ replies = [c \in Contents |-> 0]
    /\ features = NoFeatures
    /\ posts_today = [u \in Users |-> 0]

MiningNext ==
    \/ Tick(CooldownSeconds)
    \/ \E w \in Workers, r \in MiningRequests : MineBegin(w, r[1], r[2], r[3])
    \/ \E w \in Workers, fail_at \in FailPoints : MineSubreddit(w, fail_at)
    \/ \E w \in Workers : MineCommit(w)
    \/ \E o \in DOMAIN opportunities, fetch_ok \in BOOLEAN, counts \in FetchedCounts :
          RefreshOpportunity(o, fetch_ok, counts)

MiningSpec == MiningInit /\ [][MiningNext]_vars

\* The passes run one after the other, as the scheduler is meant to run them
SequentialMiningNext == MiningNext /\ pc'[2] = "idle"

SequentialMiningSpec == MiningInit /\ [][SequentialMiningNext]_vars

----------------------------------------------------------------------------
(* LearningFeature and update_learning_features_task *)

\* LearningFeature.update_success_rate
update_success_rate(row) ==
    LET total == row.success_count + row.failure_count
    IN  [row EXCEPT !.success_rate = IF total > 0 THEN <<row.success_count, total>>
                                     ELSE NoRate]

\* LearningFeature.record_outcome
record_outcome(row, success) ==
    update_success_rate(
        [row EXCEPT !.sample_count = @ + 1,
                    !.success_count = IF success THEN @ + 1 ELSE @,
                    !.failure_count = IF success THEN @ ELSE @ + 1])

\* record_outcome applied to the row of a feature
RecordOutcome(k, success) ==
    /\ StartRequest
    /\ features[k].present
    /\ features' = [features EXCEPT ![k] = record_outcome(@, success)]
    /\ UNCHANGED <<now, accounts, contents, opportunities, pc, sess, health_queue,
                   replies, posts_today>>

\* What the task counts for a key over the published contents: <<samples,
\* successes>>
FeatureData == {d \in (2..6) \X (0..6) : d[2] <= d[1]}

\* Lines 243-275: the row of a key after the task, keys with fewer than 3
\* samples being skipped
aggregate_feature(row, data) ==
    IF data[1] < 3 THEN row
    ELSE IF row.present
    THEN [row EXCEPT !.sample_count = data[1], !.success_rate = <<data[2], data[1]>>]
    ELSE [NewFeature EXCEPT !.sample_count = data[1],
                            !.success_rate = <<data[2], data[1]>>]

\* update_learning_features_task
UpdateLearningFeatures(data) ==
    /\ StartRequest
    /\ features' = [k \in FeatureKeys |-> aggregate_feature(features[k], data[k])]
    /\ UNCHANGED <<now, accounts, contents, opportunities, pc, sess, health_queue,
                   replies, posts_today>>

LearningNext ==
    \/ \E k \in FeatureKeys, success \in BOOLEAN : RecordOutcome(k, success)
    \/ \E data \in [FeatureKeys -> FeatureData] : UpdateLearningFeatures(data)

LearningSpec == ContentInit /\ [][LearningNext]_vars

----------------------------------------------------------------------------
(* Steps of publish_content, recognised from the workers' positions *)

\* Worker w has just resolved an account and goes on to the external call
Chooses(w) == pc[w] = "idle" /\ pc'[w] = "calling"

\* The external call of worker w returned a comment
Succeeds(w) == pc[w] = "calling" /\ pc'[w] = "idle" /\ replies' # replies

\* The external call of worker w raised
Fails(w) == pc[w] = "calling" /\ pc'[w] = "idle" /\ replies' = replies

----------------------------------------------------------------------------
(* Properties *)

\* C1: no publish is accepted for an account that already has
\* MAX_DAILY_POSTS_PER_ACCOUNT accepted publishes in the day, nor less than
\* REDDIT_MIN_ACTION_INTERVAL_SECONDS after the account's previous publish,
\* also when publish requests run concurrently.
C1_ConcurrentPublishKeepsLimits ==
    [][\A w \in Workers : Succeeds(w) =>
          LET a == sess[w].account_id
          IN  /\ posts_today'[a] <= MAX_DAILY_POSTS_PER_ACCOUNT
              /\ accounts[a].last_action_at # NoTime =>
                    now - accounts[a].last_action_at
                        >= REDDIT_MIN_ACTION_INTERVAL_SECONDS]_vars

\* C2: the account publish_content goes on with, selected or named by
\* account_id, is at that moment ACTIVE, below the daily cap, and either has
\* never acted or acted at least the minimum interval ago.
C2_ChosenAccountCanPost ==
    [][\A w \in Workers : Chooses(w) =>
          LET acc == accounts[sess'[w].account_id]
          IN  /\ acc.status = ACTIVE
              /\ acc.daily_actions_count < MAX_DAILY_POSTS_PER_ACCOUNT
              /\ \/ acc.last_action_at = NoTime
                 \/ now - acc.last_action_at
                        >= REDDIT_MIN_ACTION_INTERVAL_SECONDS]_vars

\* A worker goes on with an account while another account of the project that
\* may not post scores higher for the community
C2_Witness ==
    \E w \in Workers :
       /\ pc[w] = "calling"
       /\ \E b \in DOMAIN accounts :
             /\ b # sess[w].account_id
             /\ accounts[b].project_id = contents[sess[w].content].project_id
             /\ accounts[b].status = ACTIVE
             /\ ~can_post(accounts[b], now)
             /\ account_score(accounts[b], "python")
                  > account_score(accounts[sess[w].account_id], "python")

\* C3: the commit of a successful publish leaves the content PUBLISHED with
\* comment id, url, timestamp and account id, the account with
\* consecutive_failures 0, total_posts_made and daily_actions_count each one
\* higher than before the commit, last_action_at stamped and one more post in
\* the community's activity entry, and the opportunity PUBLISHED.
C3_PublishBookkeepingTogether ==
    [][\A w \in Workers : Succeeds(w) =>
          LET c == sess[w].content
              o == sess[w].opportunity
              a == sess[w].account_id
              old == accounts[a]
              new == accounts'[a]
          IN  /\ contents'[c].status = "published"
              /\ contents'[c].published_reddit_id # NoComment
              /\ contents'[c].published_url # NoComment
              /\ contents'[c].published_at = now
              /\ contents'[c].reddit_account_id = a
              /\ new.consecutive_failures = 0
              /\ new.total_posts_made = old.total_posts_made + 1
              /\ new.daily_actions_count = old.daily_actions_count + 1
              /\ new.last_action_at = now
              /\ new.subreddit_activity["python"].present
              /\ new.subreddit_activity["python"].posts
                    = old.subreddit_activity["python"].posts + 1
              /\ opportunities'[o].status = "published"]_vars

\* C4: whenever the external publish call fails, for whatever reason,
\* publish_content ends with the content FAILED.
C4_FailedPublishMarksContentFailed ==
    [][\A w \in Workers : Fails(w) =>
          contents'[sess[w].content].status = "failed"]_vars

\* C5: every failed publish raises the account's consecutive_failures by one,
\* and a failure that brings it to three without changing the account's
\* status lowers health_score by exactly 0.2, floored at 0.
C5_ThirdFailureLowersHealth ==
    [][\A w \in Workers : Fails(w) =>
          LET a == sess[w].account_id
              old == accounts[a]
              new == accounts'[a]
          IN  /\ new.consecutive_failures = old.consecutive_failures + 1
              /\ (new.consecutive_failures >= 3 /\ new.status = old.status) =>
                    new.health_score = Max(0, old.health_score - 2)]_vars

\* C6: a publish that fails for an ACTIVE account moves it to RATE_LIMITED
\* with health 0.5 on a rate-limit signal, else to SUSPENDED with health 0.0
\* on a suspension or ban signal, else to OAUTH_EXPIRED with health 0.3 on an
\* auth or token signal, and leaves its status unchanged on any other error.
C6_FailureSignalsSetStatus ==
    [][\A w \in Workers :
          LET a == sess[w].account_id
              old == accounts[a]
              new == accounts'[a]
          IN  /\ \A text \in ErrorTexts :
                    (PublishApiError(w, text) /\ old.status = ACTIVE) =>
                       IF "RATELIMIT" \in text
                       THEN new.status = RATE_LIMITED /\ new.health_score = 5
                       ELSE IF text \cap {"SUSPENDED", "BANNED"} # {}
                       THEN new.status = SUSPENDED /\ new.health_score = 0
                       ELSE IF text \cap {"TOKEN", "AUTH"} # {}
                       THEN new.status = OAUTH_EXPIRED /\ new.health_score = 3
                       ELSE new.status = ACTIVE
              /\ PublishException(w) => new.status = old.status]_vars

\* An account was ACTIVE when a publish failed for it with a ban signal
C6_Witness ==
    \E a \in DOMAIN accounts, c \in Contents :
       /\ contents[c].status = "failed"
       /\ accounts[a].status = SUSPENDED
       /\ accounts[a].health_score = 0
       /\ accounts[a].consecutive_failures = 1

\* C7: no operation moves an account out of SUSPENDED.
C7_SuspendedIsTerminal ==
    [][\A a \in DOMAIN accounts :
          accounts[a].status = SUSPENDED => accounts'[a].status = SUSPENDED]_vars

\* C8: an account leaves RATE_LIMITED for ACTIVE only by a successful health
\* probe made at least CooldownSeconds after its last action.
C8_RateLimitedRecoversAfterCooldown ==
    [][\A a \in DOMAIN accounts :
          (accounts[a].status = RATE_LIMITED /\ accounts'[a].status = ACTIVE) =>
             /\ accounts[a].last_action_at # NoTime
             /\ now - accounts[a].last_action_at >= CooldownSeconds
             /\ \E probe \in ProbeOutcomes :
                   /\ probe.ok
                   /\ accounts'[a] = check_account_health(accounts[a], probe, now)]_vars

\* C9: an account leaves INACTIVE for ACTIVE only by the activate request, and
\* an activate request whose probe finds issues leaves the account not ACTIVE.
C9_InactiveNeedsCleanReactivation ==
    [][\A a \in DOMAIN accounts :
          /\ (accounts[a].status = INACTIVE /\ accounts'[a].status = ACTIVE) =>
                \E probe \in ProbeOutcomes : ActivateAccount(a, probe)
          /\ \A probe \in ProbeOutcomes :
                (accounts[a].status = INACTIVE
                   /\ ActivateAccount(a, probe)
                   /\ health_status(accounts[a], probe) # "healthy") =>
                      accounts'[a].status # ACTIVE]_vars

\* C10: removal_rate equals total_posts_removed / total_posts_made when
\* total_posts_made is positive and is 0 otherwise.
C10_RemovalRateIsRatio ==
    \A a \in DOMAIN accounts :
       IF accounts[a].total_posts_made > 0
       THEN RateEquals(accounts[a].removal_rate, accounts[a].total_posts_removed,
                       accounts[a].total_posts_made)
       ELSE RateEquals(accounts[a].removal_rate, 0, 1)

\* C11: daily_actions_count is reset once per rolling 24 hours: no reset
\* comes less than 24 hours after the account's previous reset, and a health
\* check or reset task that runs when 24 hours have passed since the previous
\* reset, or for an account never reset, leaves the counter reset.
C11_DailyResetOncePerWindow ==
    [][\A a \in DOMAIN accounts :
          LET old == accounts[a]
              new == accounts'[a]
              due == \/ old.daily_actions_reset_at = NoTime
                     \/ now - old.daily_actions_reset_at >= DaySeconds
              checked == \E probe \in ProbeOutcomes :
                            /\ probe.ok
                            /\ new = check_account_health(old, probe, now)
          IN  /\ new.daily_actions_reset_at # old.daily_actions_reset_at =>
                    due
              /\ (due /\ (checked \/ ResetDailyLimits)) =>
                    /\ new.daily_actions_count = 0
                    /\ new.daily_actions_reset_at = now]_vars

\* C12: PUBLISHED, REJECTED, EXPIRED and FAILED are terminal: no operation
\* changes the status of an opportunity that has one of them.
C12_TerminalOpportunityStatuses ==
    [][\A o \in DOMAIN opportunities :
          opportunities[o].status \in {"published", "rejected", "expired", "failed"} =>
             opportunities'[o].status = opportunities[o].status]_vars

\* C13: the expiry sweep moves every PENDING opportunity whose expires_at is
\* in the past to EXPIRED and changes the status of no other opportunity, and
\* no step moves a PUBLISHED opportunity to EXPIRED.
C13_ExpirySweepOnlyPending ==
    [][\A o \in DOMAIN opportunities :
          LET old == opportunities[o]
              new == opportunities'[o]
          IN  /\ ExpireOpportunities =>
                    IF /\ old.status = "pending"
                       /\ old.expires_at # NoTime
                       /\ old.expires_at < now
                    THEN new = [old EXCEPT !.status = "expired"]
                    ELSE new = old
              /\ old.status = "published" => new.status # "expired"]_vars

\* The sweep has expired the second opportunity and left alone the first,
\* PUBLISHED with expires_at in the past, and the third, PENDING and not due
C13_Witness ==
    /\ opportunities[1].status = "published"
    /\ opportunities[1].expires_at < now
    /\ opportunities[2] = [LifecycleRows[2] EXCEPT !.status = "expired"]
    /\ opportunities[3].status = "pending"
    /\ opportunities[3].expires_at >= now

\* C14: the approve request succeeds only for a PENDING opportunity; for any
\* other status it answers with an error and leaves status and processed_at
\* as they were.
C14_ApproveOnlyPending ==
    [][\A o \in DOMAIN opportunities :
          LET old == opportunities[o]
              new == opportunities'[o]
          IN  ApproveOpportunity(o) =>
                 IF old.status = "pending"
                 THEN /\ approve_response(old) = 200
                      /\ new.status = "approved"
                      /\ new.processed_at = now
                 ELSE /\ approve_response(old) = 400
                      /\ new.status = old.status
                      /\ new.processed_at = old.processed_at]_vars

\* An opportunity approved earlier is still APPROVED with the time of that
\* approval after a later approve request
C14_Witness ==
    /\ requests >= 3
    /\ \E o \in DOMAIN opportunities :
          /\ opportunities[o].status = "approved"
          /\ opportunities[o].processed_at # NoTime
          /\ opportunities[o].processed_at < now

\* C15: mining is idempotent: in every reachable state with no pass under
\* way, a pass of a project over one community whose rows are committed
\* leaves nothing for a second pass over the same community with the same
\* listings to find, and the second pass adds no row to the table; within a
\* pass no two rows found have the same
\* reddit_post_id, although post "b" is in the rising and the new listing of
\* r/python and post "a" in the listings of both communities.
C15_MiningIsIdempotent ==
    /\ \A p \in MiningProjects, c \in {"python", "python+learnpython"},
          limit \in {2, 50}, d \in {0, CooldownSeconds} :
          (\A w \in Workers : pc[w] = "idle") =>
          LET first == mine_subreddit(p, c, get_existing_post_ids(opportunities, p),
                                      limit, NoFailure, now)
              after == commit_opportunities(opportunities, first, now)
              second == mine_subreddit(p, c, get_existing_post_ids(after, p),
                                       limit, NoFailure, now + d)
          IN  /\ Cardinality(RowIds(first)) = Len(first)
              /\ (first = <<>> \/ after # opportunities) => second = <<>>
              /\ commit_opportunities(after, second, now + d) = after
    /\ \A w \in Workers : pc[w] = "mining" =>
          Cardinality(RowIds(sess[w].found)) = Len(sess[w].found)

\* A second pass of project 1 over both communities has found nothing, the
\* rows of the first being in the table
C15_Witness ==
    \E w \in Workers :
        /\ pc[w] = "mining"
        /\ sess[w].project_id = 1
        /\ sess[w].limit = 100
        /\ sess[w].todo = <<>>
        /\ sess[w].failed = {}
        /\ sess[w].found = <<>>
        /\ {"a", "b", "d"} \subseteq get_existing_post_ids(opportunities, 1)

\* A pass begins in this step: worker w loads its known ids
BeginsPass(w) == pc[w] = "idle" /\ pc'[w] = "mining"

\* C16: whatever passes ran and however they interleaved, no two rows of the
\* table have the same reddit_post_id, and the known ids a pass loads when it
\* begins contain the reddit_post_id of every row then in the table.
C16_KnownSetCoversPersistedIds ==
    [][/\ Cardinality(RowIds(opportunities')) = Len(opportunities')
       /\ \A w \in Workers :
             BeginsPass(w) => RowIds(opportunities) \subseteq sess'[w].existing_ids]_vars

\* Worker w commits in this step a pass in which mining some community failed
CommitsAfterFailure(w) ==
    /\ pc[w] = "mining"
    /\ pc'[w] = "idle"
    /\ sess[w].failed # {}

\* C17: when mining one community of a pass failed, the rows found in its
\* other communities are all in the table once the pass ends.
C17_CommunityFailureIsIsolated ==
    [][\A w \in Workers :
          CommitsAfterFailure(w) =>
             \A i \in DOMAIN sess[w].found :
                sess[w].found[i].subreddit \notin sess[w].failed =>
                   \E o \in DOMAIN opportunities' :
                      /\ opportunities'[o].reddit_post_id = sess[w].found[i].reddit_post_id
                      /\ opportunities'[o].project_id = sess[w].project_id]_vars

\* The rows worker w finds in this step of its pass
FoundInStep(w) ==
    IF pc[w] = "mining" /\ pc'[w] = "mining"
    THEN SubSeq(sess'[w].found, Len(sess[w].found) + 1, Len(sess'[w].found))
    ELSE <<>>

\* The rows this step adds to the table
PersistedInStep ==
    IF Len(opportunities') > Len(opportunities)
    THEN SubSeq(opportunities', Len(opportunities) + 1, Len(opportunities'))
    ELSE <<>>

\* The listed post a row was built from
PostOf(row) == Post(row.reddit_post_id)

\* C18: every row mining persists was found by a pass, and every row a pass
\* finds is of a post whose relevance for the project is at least 0.3 and
\* whose age is at most 24 hours when it is found; a post below the floor or
\* older than the ceiling is never found, hence never persisted.
C18_PersistedRowsPassFloorAndCeiling ==
    [][/\ \A w \in Workers : \A i \in DOMAIN FoundInStep(w) :
             LET row == FoundInStep(w)[i]
             IN  /\ row.relevance_score = relevance_of(PostOf(row), row.project_id)
                 /\ row.relevance_score >= 30
                 /\ now - PostOf(row).created_utc <= 24 * HourSeconds
       /\ \A i \in DOMAIN PersistedInStep :
             \E w \in Workers :
                /\ pc[w] = "mining"
                /\ \E j \in DOMAIN sess[w].found :
                      PersistedInStep[i] =
                         [sess[w].found[j] EXCEPT !.discovered_at = now]
       /\ \A o \in DOMAIN opportunities' :
             /\ opportunities'[o].relevance_score >= 30
             /\ o \in DOMAIN opportunities =>
                   opportunities'[o].relevance_score = opportunities[o].relevance_score]_vars

\* Project 1 has mined both communities and persisted "b", whose relevance is
\* exactly 0.3, and "d", exactly 24 hours old when found, but not "c", listed
\* in both communities and below the floor
C18_Witness ==
    /\ get_existing_post_ids(opportunities, 1) = {"a", "b", "d"}
    /\ \E o \in DOMAIN opportunities :
          /\ opportunities[o].reddit_post_id = "b"
          /\ opportunities[o].relevance_score = 30
    /\ \E o \in DOMAIN opportunities :
          /\ opportunities[o].reddit_post_id = "d"
          /\ opportunities[o].discovered_at - opportunities[o].post_created_at = DaySeconds

\* The rows whose urgency is classified in this step, at the time now: the
\* rows a pass finds and the row a refresh rewrites
ClassifiedInStep ==
    UNION {{FoundInStep(w)[i] : i \in DOMAIN FoundInStep(w)} : w \in Workers}
    \cup {opportunities'[o] : o \in {x \in DOMAIN opportunities :
                                        /\ x \in DOMAIN opportunities'
                                        /\ opportunities'[x] # opportunities[x]
                                        /\ opportunities'[x].status
                                              \in {opportunities[x].status, "expired"}
                                        /\ opportunities'[x].processed_at
                                              = opportunities[x].processed_at}}

\* C19: classify_urgency gives every (velocity, age, threshold) exactly one
\* tier, the first that matches: age over 6 hours is expired whatever the
\* velocity; velocity over twice the threshold under 1 hour is urgent;
\* velocity over the threshold under 2 hours is high; velocity over half the
\* threshold under 4 hours is medium; anything else is low.
C19_UrgencyIsFirstMatchingTier ==
    [][\A row \in ClassifiedInStep :
          LET age == now - row.post_created_at
              n == row.velocity[1]
              d == row.velocity[2]
              t == row.velocity_threshold
              expired == age > 6 * HourSeconds
              urgent == n > 2 * t * d /\ age < HourSeconds
              high == n > t * d /\ age < 2 * HourSeconds
              medium == 2 * n > t * d /\ age < 4 * HourSeconds
          IN  /\ t > 0
              /\ row.velocity = calculate_post_velocity(
                     [created_utc |-> row.post_created_at, score |-> row.post_score,
                      num_comments |-> row.post_num_comments], now)
              /\ row.urgency \in {"expired", "urgent", "high", "medium", "low"}
              /\ row.urgency = "expired" <=> expired
              /\ row.urgency = "urgent" <=> ~expired /\ urgent
              /\ row.urgency = "high" <=> ~expired /\ ~urgent /\ high
              /\ row.urgency = "medium" <=> ~expired /\ ~urgent /\ ~high /\ medium
              /\ row.urgency = "low" <=> ~expired /\ ~urgent /\ ~high /\ ~medium]_vars

\* The table holds a row of each of four tiers, the medium one with a
\* velocity of exactly its threshold, and a refresh has made a row high
C19_Witness ==
    /\ \E o \in DOMAIN opportunities :
          /\ opportunities[o].urgency = "medium"
          /\ opportunities[o].velocity[1]
                = opportunities[o].velocity_threshold * opportunities[o].velocity[2]
    /\ \E o \in DOMAIN opportunities : opportunities[o].urgency = "urgent"
    /\ \E o \in DOMAIN opportunities : opportunities[o].urgency = "expired"
    /\ \E o \in DOMAIN opportunities :
          /\ opportunities[o].post_score # PostOf(opportunities[o]).score
          /\ opportunities[o].urgency \in {"high", "low"}

\* The rows of the table and the rows the passes under way have found
ScoredRows ==
    {opportunities[o] : o \in DOMAIN opportunities}
    \cup UNION {IF pc[w] = "mining"
                THEN {sess[w].found[i] : i \in DOMAIN sess[w].found}
                ELSE {} : w \in Workers}

\* C20: in every reachable state, after mining and after any refreshes, the
\* composite_score of each row is 0.30 * relevance_score + 0.25 *
\* virality_score + 0.40 * timing_score + 0.05 * 0.5 of the row's own stored
\* scores, and lies between 0.025 and 0.975.
C20_CompositeIsWeightedSum ==
    \A row \in ScoredRows :
        /\ row.composite_score
              = 30 * row.relevance_score + 25 * row.virality_score
                + 40 * row.timing_score + 250
        /\ row.composite_score >= 250
        /\ row.composite_score <= 9750

\* A row mined as urgent has been refreshed down to another timing score
C20_Witness ==
    \E o \in DOMAIN opportunities :
        /\ opportunities[o].reddit_post_id = "a"
        /\ opportunities[o].post_score # PostOf(opportunities[o]).score
        /\ opportunities[o].timing_score < 100

\* C24: an opportunity enters GENERATING only from APPROVED and leaves it only
\* to READY; a failed generation does not take it back to PENDING.
C24_GeneratingOnlyBetweenApprovedAndReady ==
    [][\A o \in DOMAIN opportunities :
          LET old == opportunities[o].status
              new == opportunities'[o].status
          IN  /\ (new = "generating" /\ old # "generating") => old = "approved"
              /\ (old = "generating" /\ new # "generating") => new = "ready"]_vars

\* C21: content that fails the quality gates is stored as DRAFT by generation
\* and regeneration, and a step leaves a gate-failing content PENDING,
\* APPROVED or PUBLISHED only when it is the approval of that content by a
\* reviewer or the content was gate-failing and approved already; PENDING is
\* never the status of a gate-failing content.
C21_GateFailingContentIsNotPromoted ==
    [][\A c \in Contents :
          LET old == contents[c]
              new == contents'[c]
              failing(row) == row.status # "absent" /\ ~row.passed_quality_gates
          IN  /\ (old.status = "absent" /\ failing(new)) => new.status = "draft"
              /\ (failing(new) /\ new.status \in {"approved", "published"})
                    => \/ ApproveContent(c)
                       \/ failing(old) /\ old.status \in {"approved", "published"}
              /\ failing(new) => new.status # "pending"]_vars

\* C22: in every reachable state the success_rate of a learning feature is
\* success_count / (success_count + failure_count) of its own counters, None
\* when both are 0, and its sample_count is their sum.
C22_SuccessRateFollowsCounters ==
    \A k \in FeatureKeys :
        features[k].present =>
            LET total == features[k].success_count + features[k].failure_count
                rate == features[k].success_rate
            IN  /\ features[k].sample_count = total
                /\ IF total = 0 THEN rate = NoRate
                   ELSE /\ rate # NoRate
                        /\ rate[1] * total = features[k].success_count * rate[2]

\* C29: a content item is published at most once: whatever the interleaving
\* of publish requests for the same approved content, and whatever requests
\* follow a failed attempt, the external reply call succeeds at most once for
\* that content.
C29_ContentPublishedAtMostOnce ==
    \A c \in Contents : replies[c] <= 1

\* C30: the account used to publish a content item belongs to that content's
\* project, also when the request names the account by account_id.
C30_AccountBelongsToContentProject ==
    [][\A w \in Workers : Chooses(w) =>
          accounts[sess'[w].account_id].project_id
              = contents[sess'[w].content].project_id]_vars

\* No account is eligible for a publish request of content c naming account a
\* (0: none named)
NoEligibleAccount(c, a) ==
    IF a # 0
    THEN a \notin DOMAIN accounts \/ ~can_post(accounts[a], now)
    ELSE \A u \in DOMAIN accounts :
            ~(/\ accounts[u].project_id = contents[c].project_id
              /\ accounts[u].status = ACTIVE
              /\ can_post(accounts[u], now))

\* C23: when no account is eligible (no ACTIVE account of the project that can
\* post, or the named account is missing or cannot post) publish_content ends
\* with its failed result: no external call is started, and the content, the
\* opportunity and every account are left as they were.
C23_NoAccountIsHandledWithoutEffect ==
    [][\A w \in Workers, c \in Contents, a \in {0} \cup Users \cup {3},
         order \in QueryOrders(DOMAIN accounts) :
          /\ (PublishAccepted(c) /\ NoEligibleAccount(c, a))
                => ~PublishBegin(w, c, a, order)
          /\ PublishNoAccount(w, c, a, order)
                => /\ NoEligibleAccount(c, a)
                   /\ UNCHANGED <<accounts, contents, opportunities, replies, pc,
                                  posts_today>>]_vars

\* One reply was posted through account 1, which may not post again yet; the
\* two other requests found no eligible account and changed nothing
C23_Witness ==
    /\ now = StartTime
    /\ requests = 3
    /\ \A w \in Workers : pc[w] = "idle"
    /\ replies[1] = 1 /\ replies[2] = 0
    /\ contents[1].reddit_account_id = 1
    /\ contents[2].status = "approved"
    /\ accounts[2] = NewAccount(2, 500, 400)
    /\ ~can_post(accounts[1], now)
    /\ NoEligibleAccount(2, 0) /\ NoEligibleAccount(2, 1)

\* The place of account a in the order the pool query returned
PoolPosition(order, a) == CHOOSE i \in DOMAIN order : order[i] = a

\* The fields the comparison of two accounts holds equal
SameButKarma(x, y, subreddit) ==
    /\ x.account_age_days = y.account_age_days
    /\ x.removal_rate = y.removal_rate
    /\ x.health_score = y.health_score
    /\ x.subreddit_activity[subreddit] = y.subreddit_activity[subreddit]

\* The account chosen for content c from the pool has the maximum total score
\* and is the first of the pool order among those with that score
ChosenIsFirstBest(chosen, c, order) ==
    LET subreddit == opportunities[contents[c].opportunity_id].subreddit
        pool == Available(accounts, contents[c].project_id, now)
        total(a) == account_score(accounts[a], subreddit)
    IN  /\ chosen \in pool
        /\ \A b \in pool : total(b) <= total(chosen)
        /\ \A b \in pool : total(b) = total(chosen)
              => PoolPosition(order, chosen) <= PoolPosition(order, b)

\* An account of the pool that equals the chosen one in the fields compared,
\* has more comment karma and stands below the cap of the karma bonus
BetterKarmaPassedOver(chosen, c, same_quota) ==
    LET subreddit == opportunities[contents[c].opportunity_id].subreddit
        pool == Available(accounts, contents[c].project_id, now)
    IN  \E b \in pool :
           /\ SameButKarma(accounts[b], accounts[chosen], subreddit)
           /\ accounts[b].karma_comment > accounts[chosen].karma_comment
           /\ accounts[b].karma_comment < 20000
           /\ same_quota =>
                 /\ accounts[b].daily_actions_count
                      = accounts[chosen].daily_actions_count
                 /\ account_score(accounts[b], subreddit) > 0

C25_ScoringFailureDropsOneCandidate ==
    [][\A w \in Workers, fail_at \in FailPoints :
          MineSubreddit(w, fail_at) =>
             LET s == sess[w]
                 posts == posts_to_check(Head(s.todo),
                                         Min(50, s.limit - Len(s.found)))
             IN  \A i \in DOMAIN posts :
                    (/\ i # fail_at + 1
                     /\ is_unknown(posts[i].id, s.existing_ids)
                     /\ qualifies(relevance_of(posts[i], s.project_id),
                                  get_post_age(posts[i], now)))
                      => posts[i].id \in RowIds(sess'[w].found)]_vars

\* The window of a tier, in seconds
TierWindow(urgency) ==
    IF urgency = "urgent" THEN HourSeconds
    ELSE IF urgency = "high" THEN 2 * HourSeconds
    ELSE IF urgency = "medium" THEN 4 * HourSeconds
    ELSE IF urgency = "low" THEN 8 * HourSeconds
    ELSE 0

C26_RefreshExpiresOnlyPending ==
    [][\A o \in DOMAIN opportunities, fetch_ok \in BOOLEAN, counts \in FetchedCounts :
          RefreshOpportunity(o, fetch_ok, counts) =>
             LET old == opportunities[o]
                 new == opportunities'[o]
                 expired == now - old.post_created_at > 6 * HourSeconds
             IN  /\ \A x \in DOMAIN opportunities \ {o} :
                       opportunities'[x] = opportunities[x]
                 /\ ~fetch_ok => new = old
                 /\ fetch_ok =>
                       /\ new.urgency = "expired" <=> expired
                       /\ new.status = IF expired /\ old.status = "pending"
                                       THEN "expired" ELSE old.status]_vars

\* After six hours a refresh has left the first opportunity READY with its
\* urgency expired, and a refresh has expired the second, which was PENDING
C26_Witness ==
    /\ opportunities[1].status = "ready"
    /\ opportunities[1].urgency = "expired"
    /\ opportunities[2].status = "expired"
    /\ opportunities[2].urgency = "expired"
    /\ opportunities[3] = LifecycleRows[3]
====
